---- MODULE Spec2Model ----
(***************************************************************************)
(* Model of the NaiBahu point-of-sale client: the order store (cart), the  *)
(* order-taking page handlers laid over it, the KOT submission, the        *)
(* dashboard payment handler, the price arithmetic and the table           *)
(* aggregation of the table grid.                                          *)
(*                                                                         *)
(* Money is kept in integer paise (1 rupee = 100 paise).                   *)
(***************************************************************************)
EXTENDS Integers, Sequences, FiniteSets, TLC

(***************************************************************************)
(* Bounds of the model.                                                    *)
(***************************************************************************)
\* largest quantity a cart line may reach (guards of the increasing steps)
MaxQty == 2
\* add-clicks that may be waiting for their 200 ms delay at the same time
MaxPendingAdds == 1
\* createOrder requests that may be in flight at the same time
MaxInflightKOT == 1

\* lines and quantity of a line in the inputs of the calculation utilities
MaxCalcLines == 2

MaxCalcQty == 2

\* rows of a table listing handed to the grid
MaxRows == 3

\* payment requests of the dashboard in flight at once
MaxInflightPay == 1

\* payment records the backend holds for one order
MaxPayments == 2

\* fetchTables calls the dashboard issues in a behaviour, and in flight at once
MaxFetches == 3

MaxInflightFetch == 2

\* login submissions in a behaviour, and HTTP requests in flight at once
MaxLogins == 2

MaxInflightHttp == 2

\* bill generations of the order page in flight at once
MaxInflightBill == 2

(***************************************************************************)
(* Inputs: the menu catalogue served by the backend, the tables.           *)
(***************************************************************************)
\* null of a string-valued field; a null identifier or table id is 0
Null == "null"

MenuIds == {1, 2}

TableIds == {1, 2}

\* SPICE_LEVELS (src/lib/spice.ts); the levels offered by the cart card
SpiceLevels == {"mild", "regular", "spicy", "extra_spicy"}

\* the levels the model lets the user pick
SpiceChoices == {"mild", "spicy"}

\* MenuItem rows of the catalogue: item 1 is a spicy dish of 100 rupees,
\* item 2 a non-spicy dish of 250 rupees
MenuItem(id) ==
  IF id = 1
  THEN [item_id |-> 1, price |-> 10000, is_spicy |-> TRUE, spice_level |-> "regular"]
  ELSE [item_id |-> id, price |-> 25000, is_spicy |-> FALSE, spice_level |-> Null]

\* quantities handed to the store's updateQuantity
QtyArgs == (0 - 1) .. MaxQty

VARIABLES
  items,          \* useOrderStore.items: the cart lines, in order
  tableId,        \* useOrderStore.tableId
  route,          \* "captain" (dashboard) or "order" (order-taking page)
  pageTableId,    \* params.tableId of the mounted order page
  pendingAdds,    \* MenuItemCard.handleAdd calls waiting in their delay
  isLoading,      \* OrderTakingPage state: the table data is being fetched
  isGeneratingKOT,\* OrderTakingPage state of the mounted page
  kotRequests,    \* createOrder calls in flight, with their payload
  calc,           \* the last evaluation of the calculation utilities
  tables,         \* useTableStore.tables: the table listing as fetched
  grid,           \* the aggregated tables TableGrid renders for `tables`
  modal,          \* TableGrid's selected billed table and its PaymentModal
  payCall,        \* the dashboard's handlePaymentComplete call in progress
  backend,        \* payments recorded and table statuses held by the backend
  blocks,         \* the blocks TableGrid renders, each with its sorted tables
  norm,           \* the rows each call site extracts from a listing payload
  fetches,        \* fetchTables calls of the dashboard in flight
  tableStoreLoading, \* useTableStore.isLoading
  storage,        \* localStorage: the two tokens and the persisted auth-storage
  authStore,      \* useAuthStore: user and isAuthenticated
  pathname,       \* window.location.pathname
  http,           \* requests of the API client awaiting their response
  loginForm,      \* LoginPage state: mode and isLoading
  audit,          \* counts of logins submitted, tokens stored, 401 redirects
  selectedTable,  \* useTableStore.selectedTable, set by fetchTableData
  existingOrders, \* OrderTakingPage state: the rows of the table with an order
  isGeneratingBill, \* OrderTakingPage state of the mounted page
  billCalls,      \* handleGenerateBill calls in progress
  bill,           \* the bill last handed to generateBillPDF
  statusLog,      \* the updateTableStatus requests the client has sent
  last            \* the operation that produced this state

cartVars == <<items, tableId, route, pageTableId, pendingAdds, isLoading,
              isGeneratingKOT, kotRequests>>

calcVars == <<calc>>

dashVars == <<tables, grid, modal, payCall, backend, blocks, norm, fetches, tableStoreLoading>>

authVars == <<storage, authStore, pathname, http, loginForm, audit>>

billVars == <<selectedTable, existingOrders, isGeneratingBill, billCalls, bill,
              statusLog>>

vars == <<cartVars, calcVars, dashVars, authVars, billVars, last>>

(***************************************************************************)
(* The order store (useOrderStore).                                        *)
(***************************************************************************)
\* state.items.find((i) => i.item_id === id) !== undefined
HasItem(its, id) == \E i \in 1 .. Len(its) : its[i].item_id = id

\* quantity of the line found for id, 0 when find() returns undefined
QuantityOf(its, id) ==
  IF HasItem(its, id)
  THEN its[CHOOSE i \in 1 .. Len(its) : its[i].item_id = id /\
                   \A j \in 1 .. (i - 1) : its[j].item_id # id].quantity
  ELSE 0

addItem_NoMerge(its, item) ==
  Append(its, [item EXCEPT !.quantity = 1, !.special_instructions = ""])

\* addItem: an existing line gets quantity + 1, a new line is appended with
\* quantity 1 and empty instructions
addItem(its, item) ==
  IF HasItem(its, item.item_id)
  THEN [i \in 1 .. Len(its) |->
          IF its[i].item_id = item.item_id
          THEN [its[i] EXCEPT !.quantity = @ + 1]
          ELSE its[i]]
  ELSE Append(its, [item EXCEPT !.quantity = 1, !.special_instructions = ""])

\* removeItem: filter out the lines of itemId
removeItem(its, itemId) == SelectSeq(its, LAMBDA l : l.item_id # itemId)

updateQuantity_DropsRest(its, itemId, quantity) ==
  IF quantity <= 0
  THEN IF HasItem(its, itemId)
       THEN SubSeq(its, 1, (CHOOSE k \in 1 .. Len(its) : its[k].item_id = itemId) - 1)
       ELSE its
  ELSE [i \in 1 .. Len(its) |->
          IF its[i].item_id = itemId THEN [its[i] EXCEPT !.quantity = quantity]
          ELSE its[i]]

updateQuantity_StoreZero(its, itemId, quantity) ==
  IF quantity < 0
  THEN SelectSeq(its, LAMBDA l : l.item_id # itemId)
  ELSE [i \in 1 .. Len(its) |->
          IF its[i].item_id = itemId
          THEN [its[i] EXCEPT !.quantity = quantity]
          ELSE its[i]]

\* updateQuantity: quantity <= 0 filters the line out, otherwise the
\* quantity of the matching line is replaced
updateQuantity(its, itemId, quantity) ==
  IF quantity <= 0
  THEN SelectSeq(its, LAMBDA l : l.item_id # itemId)
  ELSE [i \in 1 .. Len(its) |->
          IF its[i].item_id = itemId
          THEN [its[i] EXCEPT !.quantity = quantity]
          ELSE its[i]]

\* getItemCount: sum of the quantities
RECURSIVE getItemCount(_)
getItemCount(its) ==
  IF its = << >> THEN 0 ELSE Head(its).quantity + getItemCount(Tail(its))

(***************************************************************************)
(* The order-taking page (OrderTakingPage) over the store.                 *)
(***************************************************************************)
\* the CartItem handleAddItem builds from a menu item
CartItemOf(menuItem) ==
  [item_id |-> menuItem.item_id,
   price |-> menuItem.price,
   quantity |-> 1,
   spice_preference |-> menuItem.spice_level,
   special_instructions |-> ""]

\* handleAddItem as run by a closure that saw quantity seenQty for the item
\* (0: the item was not in the items the closure captured)
handleAddItem(its, id, seenQty) ==
  IF seenQty > 0
  THEN updateQuantity(its, id, seenQty + 1)
  ELSE addItem(its, CartItemOf(MenuItem(id)))

\* updatedItems.forEach(item => addItemToStore(item)) on the cleared store
RECURSIVE addAll(_, _)
addAll(acc, todo) ==
  IF todo = << >> THEN acc ELSE addAll(addItem(acc, Head(todo)), Tail(todo))

\* handleUpdateSpicePreference: map the rendered items, clearCart(), then add
\* every mapped item back through addItem
handleUpdateSpicePreference(its, itemId, spiceLevel) ==
  LET updatedItems ==
        [i \in 1 .. Len(its) |->
           IF its[i].item_id = itemId
           THEN [its[i] EXCEPT !.spice_preference = spiceLevel]
           ELSE its[i]]
  IN addAll(<< >>, updatedItems)

MaxQuantityIn(its) ==
  IF its = << >> THEN 0
  ELSE CHOOSE q \in {its[i].quantity : i \in 1 .. Len(its)} :
         \A i \in 1 .. Len(its) : its[i].quantity <= q

\* what `last` records: the operation, its arguments and the quantity the
\* cart held for the item before it ran
Op(op, id, q, lvl, pre) ==
  [op |-> op, id |-> id, q |-> q, lvl |-> lvl, pre |-> pre]

(***************************************************************************)
(* The KOT payload of handleGenerateKOT and the totals of the page.        *)
(***************************************************************************)
\* items.reduce((sum, item) => sum + item.price * item.quantity, 0)
getSubtotal_FirstLineOnly(its) ==
  IF its = << >> THEN 0 ELSE Head(its).price * Head(its).quantity

\* the store's getSubtotal: reduce of price * quantity from 0
RECURSIVE getSubtotal(_)
getSubtotal(its) ==
  IF its = << >> THEN 0
  ELSE Head(its).price * Head(its).quantity + getSubtotal(Tail(its))

\* subtotal * 0.05, in paise
getTax(its) == (getSubtotal(its) * 5) \div 100

\* subtotal + tax
getTotal(its) == getSubtotal(its) + getTax(its)

\* the order page's own totals, computed from its items on every render
RECURSIVE subtotal(_)
subtotal(its) ==
  IF its = << >> THEN 0
  ELSE subtotal(SubSeq(its, 1, Len(its) - 1))
         + its[Len(its)].price * its[Len(its)].quantity

tax(its) == (subtotal(its) * 5) \div 100

total(its) == subtotal(its) + tax(its)

\* orderData as built by handleGenerateKOT from the rendered items
orderData(its, table) ==
  [table_id |-> table,
   order_items |->
     [i \in 1 .. Len(its) |->
        [menu_item_id |-> its[i].item_id,
         quantity |-> its[i].quantity,
         unit_price |-> its[i].price,
         total_price |-> its[i].price * its[i].quantity,
         spice_preference |-> its[i].spice_preference,
         special_instructions |->
           IF its[i].special_instructions = "" THEN Null
           ELSE its[i].special_instructions]],
   subtotal_amount |-> subtotal(its),
   tax_amount |-> tax(its),
   total_amount |-> total(its)]

\* the cart card and the menu are rendered, i.e. the page is not loading
CartShown == route = "order" /\ ~ isLoading

\* the Generate KOT button is shown and enabled
CanGenerateKOT == CartShown /\ items # << >> /\ ~ isGeneratingKOT

\* the page is unmounted (or replaced by its loading view): what its
\* closures still hold is cut off from the new page's state
Unmount(S) == {[x EXCEPT !.mounted = FALSE] : x \in S}

(***************************************************************************)
(* Calculation utilities (lib/utils.ts). An optional parameter is the      *)
(* presence of its position in the argument list.                          *)
(***************************************************************************)
\* the default of calculateTax's taxRate, 0.05, in percent
DefaultTaxRatePercent == 5

\* calculateSubtotal(items): reduce of unit_price * quantity from 0
RECURSIVE calculateSubtotal(_)
calculateSubtotal(lines) ==
  IF lines = << >> THEN 0
  ELSE Head(lines).unit_price * Head(lines).quantity + calculateSubtotal(Tail(lines))

calculateTax_Rate18(args) == (args[1] * 18) \div 100

\* calculateTax(subtotal, taxRate = 0.05): subtotal * taxRate
calculateTax(args) ==
  LET taxRate == IF Len(args) >= 2 THEN args[2] ELSE DefaultTaxRatePercent
  IN (args[1] * taxRate) \div 100

\* calculateTotal(subtotal, tax, discount = 0): subtotal + tax - discount
calculateTotal(args) ==
  LET discount == IF Len(args) >= 3 THEN args[3] ELSE 0
  IN args[1] + args[2] - discount

(***************************************************************************)
(* The table listing and its aggregation by TableGrid.                     *)
(* An amount is the total_amount field of a row: a number (in thousandths  *)
(* of a rupee), null, a text that is no number, or NaN.                    *)
(***************************************************************************)
Num(v) == [k |-> "num", v |-> v]

NullAmount == [k |-> "null", v |-> 0]

BadAmount == [k |-> "bad", v |-> 0]

NaN == [k |-> "nan", v |-> 0]

\* parseFloat(x || '0')
parseFloatOr0(x) ==
  IF x.k = "null" THEN Num(0)
  ELSE IF x.k = "num" THEN x
  ELSE NaN

\* a + b on numbers
plus(a, b) == IF a.k = "nan" \/ b.k = "nan" THEN NaN ELSE Num(a.v + b.v)

\* n.toFixed(2): the number rounded to hundredths, as text ("NaN" for NaN)
toFixed2(n) ==
  IF n.k = "nan" THEN NaN ELSE Num(((n.v + 5) \div 10) * 10)

\* the payload shapes the call sites tell apart
PayloadShapes == {"array", "tables", "data.tables", "data"}

\* TableGrid's extraction of the rows from the tables prop
tableArrayOf(t) == IF t.shape \in PayloadShapes THEN t.rows ELSE << >>

\* position of the entry of key id in the Map (0: none)
MapIndex(map, id) ==
  IF \E i \in 1 .. Len(map) : map[i].table_id = id
  THEN CHOOSE i \in 1 .. Len(map) : map[i].table_id = id
  ELSE 0

mergeRow_Reinsert(map, table) ==
  Append(SelectSeq(map, LAMBDA e : e.table_id # table.table_id), table)

mergeRow_Overwrite(map, table) ==
  LET k == MapIndex(map, table.table_id)
  IN IF k > 0
     THEN [map EXCEPT ![k] =
             [map[k] EXCEPT
                !.total_amount = toFixed2(parseFloatOr0(table.total_amount)),
                !.status = IF table.status = "running" THEN "running" ELSE map[k].status,
                !.current_order_id = IF map[k].current_order_id # 0
                                     THEN map[k].current_order_id
                                     ELSE table.current_order_id]]
     ELSE Append(map, table)

mergeRow_StatusOfLast(map, table) ==
  LET k == MapIndex(map, table.table_id)
  IN IF k > 0
     THEN [map EXCEPT ![k] =
             [map[k] EXCEPT
                !.total_amount = toFixed2(plus(parseFloatOr0(map[k].total_amount),
                                               parseFloatOr0(table.total_amount))),
                !.status = table.status,
                !.current_order_id = IF map[k].current_order_id # 0
                                     THEN map[k].current_order_id
                                     ELSE table.current_order_id]]
     ELSE Append(map, table)

mergeRow_OrderOfLast(map, table) ==
  LET k == MapIndex(map, table.table_id)
  IN IF k > 0
     THEN [map EXCEPT ![k] =
             [map[k] EXCEPT
                !.total_amount = toFixed2(plus(parseFloatOr0(map[k].total_amount),
                                               parseFloatOr0(table.total_amount))),
                !.status = IF table.status = "running" THEN "running" ELSE map[k].status,
                !.current_order_id = IF table.current_order_id # 0
                                     THEN table.current_order_id
                                     ELSE map[k].current_order_id]]
     ELSE Append(map, table)

\* one turn of the forEach over the rows: Map.set keeps the position of an
\* existing key and appends a new one
mergeRow(map, table) ==
  LET k == MapIndex(map, table.table_id)
  IN IF k > 0
     THEN LET existingTable == map[k]
              existingAmount == parseFloatOr0(existingTable.total_amount)
              currentAmount == parseFloatOr0(table.total_amount)
              summedAmount == plus(existingAmount, currentAmount)
          IN [map EXCEPT ![k] =
                [existingTable EXCEPT
                   !.total_amount = toFixed2(summedAmount),
                   !.status = IF table.status = "running" THEN "running"
                              ELSE existingTable.status,
                   !.current_order_id =
                      IF existingTable.current_order_id # 0
                      THEN existingTable.current_order_id
                      ELSE table.current_order_id]]
     ELSE Append(map, table)

\* tableArray.forEach(...) followed by Array.from(map.values())
RECURSIVE aggregateInto(_, _)
aggregateInto(map, rows) ==
  IF rows = << >> THEN map
  ELSE aggregateInto(mergeRow(map, Head(rows)), Tail(rows))

\* the aggregated tables TableGrid renders for a tables prop
aggregate(t) == aggregateInto(<< >>, tableArrayOf(t))

\* the aggregated table of id t in the rendered grid (<< >>: none)
GridTable(g, t) == SelectSeq(g, LAMBDA e : e.table_id = t)

\* a display number is the sequence of its digits: "10" is <<1, 0>>
TableNumbers == {<<1>>, <<2>>, <<1, 0>>}

\* the block letters, with their UTF-16 code units
TableBlocks == {"A", "B"}

CodeUnit(b) == IF b = "A" THEN 65 ELSE 66

\* a.localeCompare(b) with no options, on digit strings: character by
\* character, a proper prefix first
RECURSIVE localeCompare(_, _)
localeCompare(a, b) ==
  IF a = << >> /\ b = << >> THEN 0
  ELSE IF a = << >> THEN 0 - 1
  ELSE IF b = << >> THEN 1
  ELSE IF Head(a) < Head(b) THEN 0 - 1
  ELSE IF Head(a) > Head(b) THEN 1
  ELSE localeCompare(Tail(a), Tail(b))

\* x put into the sorted ts behind everything that does not compare greater
insertByNumber(ts, x) ==
  LET n == Cardinality({i \in 1 .. Len(ts) :
                          localeCompare(ts[i].table_number, x.table_number) <= 0})
  IN SubSeq(ts, 1, n) \o <<x>> \o SubSeq(ts, n + 1, Len(ts))

\* groupedTables[block].sort((a, b) => a.table_number.localeCompare(b.table_number))
RECURSIVE sortByNumber(_)
sortByNumber(ts) ==
  IF ts = << >> THEN << >>
  ELSE insertByNumber(sortByNumber(SubSeq(ts, 1, Len(ts) - 1)), ts[Len(ts)])

\* Object.keys(groupedTables).sort(): the block keys by code unit
RECURSIVE sortedBlocks(_)
sortedBlocks(bs) ==
  IF bs = {} THEN << >>
  ELSE LET b == CHOOSE x \in bs : \A y \in bs : CodeUnit(x) <= CodeUnit(y)
       IN <<b>> \o sortedBlocks(bs \ {b})

\* the blocks as rendered: groupedTables by table_block, each block sorted
groupByBlock(g) ==
  LET keys == sortedBlocks({g[i].table_block : i \in 1 .. Len(g)})
  IN [k \in 1 .. Len(keys) |->
        [block |-> keys[k],
         tables |-> sortByNumber(SelectSeq(g, LAMBDA e : e.table_block = keys[k]))]]

\* the array the order page's fetchTableData takes from the response
allTablesOf(t) ==
  IF t.shape = "array" THEN t.rows
  ELSE IF t.shape = "data.tables" THEN t.rows
  ELSE IF t.shape = "tables" THEN t.rows
  ELSE << >>

\* the array handleGenerateBill takes from the response
allTablesOfBill(t) ==
  IF t.shape = "array" THEN t.rows
  ELSE IF t.shape = "data.tables" THEN t.rows
  ELSE IF t.shape = "tables" THEN t.rows
  ELSE << >>

\* the array the dashboard's handlePaymentComplete takes from the store
tablesArrayOf(t) ==
  IF t.shape = "array" THEN t.rows
  ELSE IF t.shape = "tables" THEN t.rows
  ELSE IF t.shape = "data.tables" THEN t.rows
  ELSE IF t.shape = "data" THEN t.rows
  ELSE << >>

NormIdle == [done |-> FALSE, grid |-> << >>, payment |-> << >>,
             page |-> << >>, bill |-> << >>]

FetchIdle == [issued |-> 0, newest |-> 0, inflight |-> {}]

(***************************************************************************)
(* The backend as seen through the tables and payments API.                *)
(***************************************************************************)
OrderIds == {7, 8, 9}

\* GET /tables: one row per active order of a table
BackendListing(b) ==
  [shape |-> "array",
   rows |-> << [table_id |-> 1, status |-> b.status[1], current_order_id |-> 7,
                total_amount |-> Num(250000),
                table_block |-> "A", table_number |-> <<1>>],
               [table_id |-> 1, status |-> b.status[1], current_order_id |-> 8,
                total_amount |-> Num(180500),
                table_block |-> "A", table_number |-> <<1>>],
               [table_id |-> 2, status |-> b.status[2], current_order_id |-> b.order2,
                total_amount |-> Num(100000),
                table_block |-> "A", table_number |-> <<2>>] >>]

\* the payment methods of the modal
PaymentMethods == {"cash", "card", "upi", "phonepe", "googlepay", "paytm"}

ClosedModal ==
  [open |-> FALSE, table_id |-> 0, amount |-> 0, selectedMethod |-> Null,
   amountPaid |-> 0, isProcessing |-> FALSE, isSuccess |-> FALSE, error |-> ""]

(***************************************************************************)
(* Authentication: the token storage, the auth store and the API client.   *)
(***************************************************************************)
Roles == {"captain", "admin"}

LoginModes == {"captain", "admin"}

NoUser == "none"

\* where the body of a login response carries its tokens
TokenPlaces == {"data.tokens", "data.access_token", "tokens", "access_token", "none"}

\* the bodies the login endpoint may answer with: the success flag, whether
\* data (with the user of the given role) is present, the place of the tokens
LoginBodies ==
  {b \in [success : BOOLEAN, data : BOOLEAN, role : Roles, tokenAt : TokenPlaces] :
     /\ b.tokenAt \in {"data.tokens", "data.access_token"} => b.data
     /\ ~ b.data => b.role = "captain"}

\* authApi.login finds the access token in any of its four formats
tokenFoundByLogin(b) == b.tokenAt # "none"

\* handleSubmit reads tokens?.accessToken || response.data.access_token
tokenFoundByPage(b) == b.tokenAt \in {"data.tokens", "data.access_token"}

LoggedOut == [user |-> NoUser, isAuthenticated |-> FALSE]

\* setAccessToken, setRefreshToken
setTokens(st, tok) == [st EXCEPT !.access_token = tok, !.refresh_token = tok]

removeTokens(st) == [st EXCEPT !.access_token = 0, !.refresh_token = 0]

\* the persist middleware writes user and isAuthenticated at every set
persist(st, a) == [st EXCEPT !.auth = a]

on401_NoTokenCheck(st, path) ==
  [storage |-> removeTokens(st), redirected |-> path # "/"]

\* the 401 branch of the response interceptor
on401(st, path) ==
  IF st.access_token # 0
  THEN [storage |-> removeTokens(st), redirected |-> path # "/"]
  ELSE [storage |-> st, redirected |-> FALSE]

\* the mount effects: the login page sends an authenticated user to the page
\* of the role, the dashboard sends a missing user to the login page
settle(path, a) ==
  IF path = "/" /\ a.isAuthenticated
  THEN IF a.user = "admin" THEN "/admin" ELSE "/captain"
  ELSE IF path = "/captain" /\ a.user = NoUser THEN "/"
  ELSE path

FormIdle == [mode |-> "captain", isLoading |-> FALSE]

AuditIdle == [logins |-> 0, stored |-> 0, redirects |-> 0]

\* a captain signed in and on the dashboard
SignedIn ==
  /\ storage = [access_token |-> 1, refresh_token |-> 1,
                auth |-> [user |-> "captain", isAuthenticated |-> TRUE]]
  /\ authStore = [user |-> "captain", isAuthenticated |-> TRUE]
  /\ pathname = "/captain"
  /\ http = {}
  /\ loginForm = FormIdle
  /\ audit = [AuditIdle EXCEPT !.stored = 1]

(***************************************************************************)
(* The table data of the order page and the bill.                          *)
(***************************************************************************)
NoTable == [table_id |-> 0, status |-> "none"]

NoBill == [table_id |-> 0, listing |-> << >>,
           subtotal |-> Num(0), tax |-> Num(0), total |-> Num(0)]

\* allTables.filter(t => t.table_id === tableId)
entriesOf(rows, t) == SelectSeq(rows, LAMBDA e : e.table_id = t)

\* the entries that carry an order id
havingOrder(rows) == SelectSeq(rows, LAMBDA e : e.current_order_id # 0)

\* setSelectedTable(tableEntries[0])
selectedOf(entries) == [table_id |-> entries[1].table_id, status |-> entries[1].status]

\* setExistingOrders: the entries with an order id of a running table
existingOf(entries) ==
  IF entries[1].status = "running" THEN havingOrder(entries) ELSE << >>

\* the Generate Bill button is rendered and enabled
CanGenerateBill ==
  /\ CartShown
  /\ selectedTable.status = "running"
  /\ existingOrders # << >>
  /\ ~ isGeneratingBill

\* allTables.filter(t => t.table_id === tableId && t.current_order_id)
tableOrdersOf(rows, t) == havingOrder(entriesOf(rows, t))

RECURSIVE sumAmounts(_)
\* tableOrders.reduce((sum, order) => sum + parseFloat(order.total_amount || '0'), 0)
sumAmounts(rows) ==
  IF rows = << >> THEN Num(0)
  ELSE plus(sumAmounts(SubSeq(rows, 1, Len(rows) - 1)),
            parseFloatOr0(rows[Len(rows)].total_amount))

\* n * c
times(n, c) == IF n.k = "nan" THEN NaN ELSE Num(n.v * c)

\* billSubtotal, billTax = billSubtotal * 0.05, billTotal = billSubtotal +
\* billTax, in hundredths of the unit of the amounts
billTotals(rows) ==
  LET sub == sumAmounts(rows)
  IN [subtotal |-> times(sub, 100), tax |-> times(sub, 5), total |-> times(sub, 105)]

BillIdle ==
  /\ selectedTable = NoTable
  /\ existingOrders = << >>
  /\ isGeneratingBill = FALSE
  /\ billCalls = {}
  /\ bill = NoBill
  /\ statusLog = {}

(***************************************************************************)
(* Initial states.                                                         *)
(***************************************************************************)
CartIdle ==
  /\ items = << >>
  /\ tableId = 0
  /\ route = "captain"
  /\ pageTableId = 0
  /\ pendingAdds = {}
  /\ isLoading = FALSE
  /\ isGeneratingKOT = FALSE
  /\ kotRequests = {}

\* the value of calc for an input not yet calculated
CalcInput(lines, discount) ==
  [done |-> FALSE, lines |-> lines, discount |-> discount,
   subtotal |-> 0, tax |-> 0, total |-> 0,
   storeSubtotal |-> 0, storeTax |-> 0, storeTotal |-> 0]

CalcIdle == calc = CalcInput(<< >>, << >>)

DashIdle ==
  /\ tables = [shape |-> "array", rows |-> << >>]
  /\ grid = << >>
  /\ modal = ClosedModal
  /\ payCall = {}
  /\ backend = [paid |-> [o \in OrderIds |-> 0],
                status |-> [t \in TableIds |-> "empty"],
                order2 |-> 9]
  /\ blocks = << >>
  /\ norm = NormIdle
  /\ fetches = FetchIdle
  /\ tableStoreLoading = FALSE

\* the application as loaded: nothing in the cart, the dashboard shown
Init ==
  /\ CartIdle
  /\ SignedIn
  /\ BillIdle
  /\ CalcIdle
  /\ DashIdle
  /\ last = Op("init", 0, 0, Null, 0)

(***************************************************************************)
(* Navigation.                                                             *)
(***************************************************************************)
\* the dashboard's handleTableSelect routes to the order page; its mount
\* effect starts fetchTableData (isLoading) and runs setTableId(tableId).
\* The page state is that of a fresh mount.
EnterOrderPage(t) ==
  /\ route = "captain"
  /\ route' = "order"
  /\ pageTableId' = t
  /\ tableId' = t
  /\ isLoading' = TRUE
  /\ isGeneratingKOT' = FALSE
  /\ last' = Op("EnterOrderPage", t, 0, Null, 0)
  /\ existingOrders' = << >>
  /\ isGeneratingBill' = FALSE
  /\ UNCHANGED <<selectedTable, billCalls, bill, statusLog>>
  /\ UNCHANGED <<calcVars, dashVars, authVars>>
  /\ UNCHANGED <<items, pendingAdds, kotRequests>>

\* fetchTableData of the mount effect resolves: the page shows menu and cart
TableDataLoaded ==
  /\ route = "order"
  /\ isLoading
  /\ ~ \E r \in kotRequests : r.mounted /\ r.phase = "fetchTableData"
  /\ isLoading' = FALSE
  /\ LET entries == entriesOf(allTablesOf(BackendListing(backend)), pageTableId)
     IN /\ entries # << >>
        /\ selectedTable' = selectedOf(entries)
        /\ existingOrders' = existingOf(entries)
  /\ last' = Op("TableDataLoaded", pageTableId, 0, Null, 0)
  /\ UNCHANGED <<isGeneratingBill, billCalls, bill, statusLog>>
  /\ UNCHANGED <<calcVars, dashVars, authVars>>
  /\ UNCHANGED <<items, tableId, route, pageTableId, pendingAdds,
                 isGeneratingKOT, kotRequests>>

\* Back (or a failed table load, or a generated bill) routes to the
\* dashboard; the effect's cleanup only removes socket listeners. Delays and
\* requests of the unmounted page keep running.
LeaveOrderPage ==
  /\ route = "order"
  /\ route' = "captain"
  /\ pageTableId' = 0
  /\ isLoading' = FALSE
  /\ isGeneratingKOT' = FALSE
  /\ pendingAdds' = Unmount(pendingAdds)
  /\ kotRequests' = Unmount(kotRequests)
  /\ last' = Op("LeaveOrderPage", 0, 0, Null, 0)
  /\ existingOrders' = << >>
  /\ isGeneratingBill' = FALSE
  /\ billCalls' = Unmount(billCalls)
  /\ UNCHANGED <<selectedTable, bill, statusLog>>
  /\ UNCHANGED <<calcVars, dashVars, authVars>>
  /\ UNCHANGED <<items, tableId>>

(***************************************************************************)
(* Cart actions of the order page.                                         *)
(***************************************************************************)
\* MenuItemCard.handleAdd, up to its await: the card is disabled while its
\* own add is pending; the onAdd it will call closes over the rendered items
AddClick(id) ==
  /\ CartShown
  /\ Cardinality(pendingAdds) < MaxPendingAdds
  /\ ~ \E p \in pendingAdds : p.item_id = id /\ p.mounted
  /\ pendingAdds' = pendingAdds \cup
       {[item_id |-> id, seenQty |-> QuantityOf(items, id), mounted |-> TRUE]}
  /\ last' = Op("AddClick", id, 0, Null, QuantityOf(items, id))
  /\ UNCHANGED <<calcVars, dashVars, authVars, billVars>>
  /\ UNCHANGED <<items, tableId, route, pageTableId, isLoading,
                 isGeneratingKOT, kotRequests>>

\* MenuItemCard.handleAdd after the delay: onAdd(item), i.e. handleAddItem
\* with the items its closure captured
AddApply(p) ==
  /\ p \in pendingAdds
  /\ MaxQuantityIn(handleAddItem(items, p.item_id, p.seenQty)) <= MaxQty
  /\ items' = handleAddItem(items, p.item_id, p.seenQty)
  /\ pendingAdds' = pendingAdds \ {p}
  /\ last' = Op("AddApply", p.item_id, p.seenQty, Null, QuantityOf(items, p.item_id))
  /\ UNCHANGED <<calcVars, dashVars, authVars, billVars>>
  /\ UNCHANGED <<tableId, route, pageTableId, isLoading, isGeneratingKOT,
                 kotRequests>>

\* the store's updateQuantity, as called by the cart card (+ and -)
UpdateQuantity(id, q) ==
  /\ CartShown
  /\ items' = updateQuantity(items, id, q)
  /\ last' = Op("updateQuantity", id, q, Null, QuantityOf(items, id))
  /\ UNCHANGED <<calcVars, dashVars, authVars, billVars>>
  /\ UNCHANGED <<tableId, route, pageTableId, pendingAdds, isLoading,
                 isGeneratingKOT, kotRequests>>

\* the store's removeItem, as called by the cart card's trash button
RemoveItem(id) ==
  /\ CartShown
  /\ items' = removeItem(items, id)
  /\ last' = Op("removeItem", id, 0, Null, QuantityOf(items, id))
  /\ UNCHANGED <<calcVars, dashVars, authVars, billVars>>
  /\ UNCHANGED <<tableId, route, pageTableId, pendingAdds, isLoading,
                 isGeneratingKOT, kotRequests>>

\* handleUpdateSpicePreference, called by the spice buttons the cart card
\* shows for a spicy line; its clearCart() also resets the store's tableId
UpdateSpicePreference(id, lvl) ==
  /\ CartShown
  /\ HasItem(items, id)
  /\ MenuItem(id).is_spicy
  /\ items' = handleUpdateSpicePreference(items, id, lvl)
  /\ tableId' = 0
  /\ last' = Op("updateSpicePreference", id, 0, lvl, QuantityOf(items, id))
  /\ UNCHANGED <<calcVars, dashVars, authVars, billVars>>
  /\ UNCHANGED <<route, pageTableId, pendingAdds, isLoading, isGeneratingKOT,
                 kotRequests>>

\* the store's clearCart
ClearCart ==
  /\ CartShown
  /\ items' = << >>
  /\ tableId' = 0
  /\ last' = Op("clearCart", 0, 0, Null, 0)
  /\ UNCHANGED <<calcVars, dashVars, authVars, billVars>>
  /\ UNCHANGED <<route, pageTableId, pendingAdds, isLoading, isGeneratingKOT,
                 kotRequests>>

(***************************************************************************)
(* KOT submission (handleGenerateKOT).                                     *)
(***************************************************************************)
\* the click: the payload is built from the rendered items and createOrder
\* is awaited
GenerateKOT ==
  /\ CanGenerateKOT
  /\ Cardinality(kotRequests) < MaxInflightKOT
  /\ isGeneratingKOT' = TRUE
  /\ kotRequests' = kotRequests \cup
       {[payload |-> orderData(items, pageTableId),
         phase |-> "createOrder",
         mounted |-> TRUE]}
  /\ last' = Op("GenerateKOT", pageTableId, 0, Null, 0)
  /\ UNCHANGED <<calcVars, dashVars, authVars, billVars>>
  /\ UNCHANGED <<items, tableId, route, pageTableId, pendingAdds, isLoading>>

\* createOrder resolves: clearCart(), then fetchTableData() is awaited, which
\* puts the page of the request in its loading view
KOTSuccess(r) ==
  /\ r \in kotRequests
  /\ r.phase = "createOrder"
  /\ items' = << >>
  /\ tableId' = 0
  /\ kotRequests' = (kotRequests \ {r}) \cup {[r EXCEPT !.phase = "fetchTableData"]}
  /\ isLoading' = IF r.mounted THEN TRUE ELSE isLoading
  /\ pendingAdds' = IF r.mounted THEN Unmount(pendingAdds) ELSE pendingAdds
  /\ last' = Op("KOTSuccess", r.payload.table_id, 0, Null, 0)
  /\ UNCHANGED <<calcVars, dashVars, authVars, billVars>>
  /\ UNCHANGED <<route, pageTableId, isGeneratingKOT>>

KOTFail_Clears(r) ==
  /\ r \in kotRequests
  /\ r.phase = "createOrder"
  /\ kotRequests' = kotRequests \ {r}
  /\ items' = << >>
  /\ tableId' = 0
  /\ last' = Op("KOTFail", r.payload.table_id, 0, Null, 0)
  /\ UNCHANGED <<calcVars, dashVars, authVars, billVars>>
  /\ UNCHANGED <<route, pageTableId, pendingAdds, isLoading, isGeneratingKOT>>

\* createOrder rejects: the catch only reports, the finally resets the flag
KOTFail(r) ==
  /\ r \in kotRequests
  /\ r.phase = "createOrder"
  /\ kotRequests' = kotRequests \ {r}
  /\ isGeneratingKOT' = IF r.mounted THEN FALSE ELSE isGeneratingKOT
  /\ last' = Op("KOTFail", r.payload.table_id, 0, Null, 0)
  /\ UNCHANGED <<calcVars, dashVars, authVars, billVars>>
  /\ UNCHANGED <<items, tableId, route, pageTableId, pendingAdds, isLoading>>

\* the fetchTableData after a KOT resolves; the finally resets the flag
KOTRefreshed(r) ==
  /\ r \in kotRequests
  /\ r.phase = "fetchTableData"
  /\ kotRequests' = kotRequests \ {r}
  /\ isLoading' = IF r.mounted THEN FALSE ELSE isLoading
  /\ isGeneratingKOT' = IF r.mounted THEN FALSE ELSE isGeneratingKOT
  /\ LET entries == entriesOf(allTablesOf(BackendListing(backend)), r.payload.table_id)
     IN /\ entries # << >>
        /\ selectedTable' = selectedOf(entries)
        /\ existingOrders' = IF r.mounted THEN existingOf(entries) ELSE existingOrders
  /\ last' = Op("KOTRefreshed", r.payload.table_id, 0, Null, 0)
  /\ UNCHANGED <<isGeneratingBill, billCalls, bill, statusLog>>
  /\ UNCHANGED <<calcVars, dashVars, authVars>>
  /\ UNCHANGED <<items, tableId, route, pageTableId, pendingAdds>>

\* the fetchTableData after a KOT fails: its catch routes to the dashboard
KOTRefreshFailed(r) ==
  /\ r \in kotRequests
  /\ r.phase = "fetchTableData"
  /\ route' = "captain"
  /\ pageTableId' = 0
  /\ isLoading' = FALSE
  /\ isGeneratingKOT' = FALSE
  /\ pendingAdds' = Unmount(pendingAdds)
  /\ kotRequests' = Unmount(kotRequests \ {r})
  /\ last' = Op("KOTRefreshFailed", r.payload.table_id, 0, Null, 0)
  /\ existingOrders' = << >>
  /\ isGeneratingBill' = FALSE
  /\ billCalls' = Unmount(billCalls)
  /\ UNCHANGED <<selectedTable, bill, statusLog>>
  /\ UNCHANGED <<calcVars, dashVars, authVars>>
  /\ UNCHANGED <<items, tableId>>

(***************************************************************************)
(* Calculation of totals.                                                  *)
(***************************************************************************)
\* prices of the lines handed to the utilities, in paise
CalcPrices == {10000, 25000, 100000}

CalcLine == [unit_price : CalcPrices, quantity : 1 .. MaxCalcQty]

CalcLines == UNION {[1 .. n -> CalcLine] : n \in 0 .. MaxCalcLines}

\* the discount argument: absent, or given
CalcDiscounts == {<< >>, <<0>>, <<5000>>}

\* the cart whose lines have these prices and quantities
CartOf(lines) ==
  [i \in 1 .. Len(lines) |->
     [item_id |-> i, price |-> lines[i].unit_price, quantity |-> lines[i].quantity,
      spice_preference |-> Null, special_instructions |-> ""]]

InitCalc ==
  /\ CartIdle
  /\ SignedIn
  /\ BillIdle
  /\ DashIdle
  /\ \E lines \in CalcLines, discount \in CalcDiscounts :
        calc = CalcInput(lines, discount)
  /\ last = Op("init", 0, 0, Null, 0)

\* calculateSubtotal, calculateTax with the default rate and calculateTotal
\* applied in turn, and the getters of a store holding the same lines
Calculate ==
  /\ ~ calc.done
  /\ LET sub == calculateSubtotal(calc.lines)
         tx == calculateTax(<<sub>>)
     IN calc' = [calc EXCEPT
                   !.done = TRUE,
                   !.subtotal = sub,
                   !.tax = tx,
                   !.total = calculateTotal(<<sub, tx>> \o calc.discount),
                   !.storeSubtotal = getSubtotal(CartOf(calc.lines)),
                   !.storeTax = getTax(CartOf(calc.lines)),
                   !.storeTotal = getTotal(CartOf(calc.lines))]
  /\ last' = Op("calculate", 0, 0, Null, 0)
  /\ UNCHANGED <<cartVars, dashVars, authVars, billVars>>

(***************************************************************************)
(* Rendering of the table grid.                                            *)
(***************************************************************************)
GridTableIds == {1, 2, 3}

\* what a row of the listing carries besides its table id
RowKinds ==
  { [status |-> "running", current_order_id |-> 7, total_amount |-> Num(250000)],
    [status |-> "billed", current_order_id |-> 8, total_amount |-> Num(180500)],
    [status |-> "billed", current_order_id |-> 0, total_amount |-> NullAmount],
    [status |-> "running", current_order_id |-> 0, total_amount |-> BadAmount],
    [status |-> "empty", current_order_id |-> 9, total_amount |-> Num(4)],
    [status |-> "billed", current_order_id |-> 0, total_amount |-> Num(6)] }

Rows ==
  { [table_id |-> t, status |-> k.status, current_order_id |-> k.current_order_id,
     total_amount |-> k.total_amount,
     table_block |-> "A", table_number |-> <<t>>] : t \in GridTableIds, k \in RowKinds }

Listings ==
  { [shape |-> sh, rows |-> rs] :
      sh \in PayloadShapes \cup {"other"},
      rs \in UNION {[1 .. n -> Rows] : n \in 0 .. MaxRows} }

InitAgg ==
  /\ CartIdle
  /\ SignedIn
  /\ BillIdle
  /\ CalcIdle
  /\ tables \in Listings
  /\ grid = << >>
  /\ modal = ClosedModal
  /\ payCall = {}
  /\ backend = [paid |-> [o \in OrderIds |-> 0],
                status |-> [t \in TableIds |-> "empty"],
                order2 |-> 9]
  /\ blocks = << >>
  /\ norm = NormIdle
  /\ fetches = FetchIdle
  /\ tableStoreLoading = FALSE
  /\ last = Op("init", 0, 0, Null, 0)

\* the dashboard over any array of rows of its tables with numeric amounts
InitOrderId ==
  /\ InitAgg
  /\ tables.shape = "array"
  /\ \A i \in 1 .. Len(tables.rows) :
        /\ tables.rows[i].table_id \in TableIds
        /\ tables.rows[i].total_amount.k = "num"

\* TableGrid renders the tables prop
RenderTableGrid ==
  /\ route = "captain"
  /\ grid' = aggregate(tables)
  /\ blocks' = groupByBlock(grid')
  /\ last' = Op("RenderTableGrid", 0, 0, Null, 0)
  /\ UNCHANGED <<authVars, billVars, cartVars, calcVars, tables, modal, payCall, backend, norm, fetches, tableStoreLoading>>

\* listings of tables of distinct ids, each with a block and a display number
GroupRows(n) ==
  { rs \in [1 .. n -> [table_id : 1 .. n, status : {"empty"}, current_order_id : {0},
                       total_amount : {NullAmount},
                       table_block : TableBlocks, table_number : TableNumbers]] :
      \A i \in 1 .. n : rs[i].table_id = i }

InitGroup ==
  /\ CartIdle
  /\ SignedIn
  /\ BillIdle
  /\ CalcIdle
  /\ \E n \in 0 .. MaxRows : \E rs \in GroupRows(n) :
        tables = [shape |-> "array", rows |-> rs]
  /\ grid = << >>
  /\ modal = ClosedModal
  /\ payCall = {}
  /\ backend = [paid |-> [o \in OrderIds |-> 0],
                status |-> [t \in TableIds |-> "empty"],
                order2 |-> 9]
  /\ blocks = << >>
  /\ norm = NormIdle
  /\ fetches = FetchIdle
  /\ tableStoreLoading = FALSE
  /\ last = Op("init", 0, 0, Null, 0)

\* every call site that reads a table listing extracts its rows
Normalize ==
  /\ ~ norm.done
  /\ norm' = [done |-> TRUE,
              grid |-> tableArrayOf(tables),
              payment |-> tablesArrayOf(tables),
              page |-> allTablesOf(tables),
              bill |-> allTablesOfBill(tables)]
  /\ last' = Op("Normalize", 0, 0, Null, 0)
  /\ UNCHANGED <<authVars, billVars, cartVars, calcVars, tables, grid, modal, payCall, backend,
                 blocks, fetches, tableStoreLoading>>

(***************************************************************************)
(* Payment on the dashboard.                                               *)
(***************************************************************************)
\* the PaymentModal as mounted for an aggregated table
OpenedModal(e) ==
  [ClosedModal EXCEPT
     !.open = TRUE,
     !.table_id = e.table_id,
     !.amount = parseFloatOr0(e.total_amount).v,
     !.amountPaid = parseFloatOr0(e.total_amount).v]

\* what the amount input can be set to
AmountChoices(amount) == {0, amount, amount + 50000}

isValidAmount_NotNegative(paidAmount, amount) == paidAmount >= 0

\* isValidAmount: paidAmount >= amount
isValidAmount(paidAmount, amount) == paidAmount >= amount

\* the Confirm Payment button is not disabled
ConfirmEnabled ==
  modal.selectedMethod # Null /\ isValidAmount(modal.amountPaid, modal.amount)

\* the form of the modal is shown
FormShown == modal.open /\ ~ modal.isProcessing /\ ~ modal.isSuccess

\* the rows of the store for table t, as handlePaymentComplete filters them
tableEntries(t) == SelectSeq(tablesArrayOf(tables), LAMBDA e : e.table_id = t)

InitPay ==
  /\ CartIdle
  /\ SignedIn
  /\ BillIdle
  /\ CalcIdle
  /\ \E st \in [TableIds -> {"running", "billed"}], o2 \in {0, 9} :
        backend = [paid |-> [o \in OrderIds |-> 0], status |-> st, order2 |-> o2]
  /\ tables = BackendListing(backend)
  /\ grid = aggregate(tables)
  /\ blocks = groupByBlock(grid)
  /\ norm = NormIdle
  /\ fetches = FetchIdle
  /\ tableStoreLoading = FALSE
  /\ modal = ClosedModal
  /\ payCall = {}
  /\ last = Op("init", 0, 0, Null, 0)

\* fetchTables (refresh button, socket event) resolves: setTables. While it
\* runs the grid shows its spinner, which unmounts the PaymentModal.
RefreshTables ==
  /\ route = "captain"
  /\ tables' = BackendListing(backend)
  /\ grid' = aggregate(tables')
  /\ blocks' = groupByBlock(grid')
  /\ tableStoreLoading' = FALSE
  /\ UNCHANGED <<norm, fetches>>
  /\ modal' = IF modal.open
              THEN [ClosedModal EXCEPT !.open = TRUE, !.table_id = modal.table_id,
                                       !.amount = modal.amount,
                                       !.amountPaid = modal.amount]
              ELSE modal
  /\ payCall' = Unmount(payCall)
  /\ last' = Op("RefreshTables", 0, 0, Null, 0)
  /\ UNCHANGED <<authVars, billVars, cartVars, calcVars, backend>>

TableClick_AnyStatus(t) ==
  /\ route = "captain"
  /\ ~ modal.open
  /\ GridTable(grid, t) # << >>
  /\ modal' = OpenedModal(GridTable(grid, t)[1])
  /\ last' = Op("TableClick", t, 0, Null, 0)
  /\ UNCHANGED <<cartVars, payCall, billVars>>
  /\ UNCHANGED <<authVars, calcVars, tables, grid, blocks, norm, fetches, tableStoreLoading, backend>>

\* handleTableClick: a billed table opens the PaymentModal, any other goes
\* to the order page as EnterOrderPage does
TableClick(t) ==
  /\ route = "captain"
  /\ ~ modal.open
  /\ GridTable(grid, t) # << >>
  /\ LET e == GridTable(grid, t)[1]
     IN IF e.status = "billed"
        THEN /\ modal' = OpenedModal(e)
             /\ last' = Op("TableClick", t, 0, Null, 0)
             /\ UNCHANGED <<cartVars, payCall, existingOrders, isGeneratingBill>>
        ELSE /\ route' = "order"
             /\ pageTableId' = t
             /\ tableId' = t
             /\ isLoading' = TRUE
             /\ isGeneratingKOT' = FALSE
             /\ existingOrders' = << >>
             /\ isGeneratingBill' = FALSE
             /\ payCall' = Unmount(payCall)
             /\ last' = Op("EnterOrderPage", t, 0, Null, 0)
             /\ UNCHANGED <<items, pendingAdds, kotRequests, modal>>
  /\ UNCHANGED <<selectedTable, billCalls, bill, statusLog>>
  /\ UNCHANGED <<authVars, calcVars, tables, grid, blocks, norm, fetches, tableStoreLoading, backend>>

\* a payment method button
SelectMethod(m) ==
  /\ FormShown
  /\ modal' = [modal EXCEPT !.selectedMethod = m]
  /\ last' = Op("SelectMethod", modal.table_id, 0, Null, 0)
  /\ UNCHANGED <<authVars, billVars, cartVars, calcVars, tables, grid, blocks, norm, fetches, tableStoreLoading, payCall, backend>>

\* the amount input
EnterAmount(a) ==
  /\ FormShown
  /\ modal' = [modal EXCEPT !.amountPaid = a]
  /\ last' = Op("EnterAmount", modal.table_id, 0, Null, 0)
  /\ UNCHANGED <<authVars, billVars, cartVars, calcVars, tables, grid, blocks, norm, fetches, tableStoreLoading, payCall, backend>>

\* handleClose
CloseModal ==
  /\ modal.open
  /\ ~ modal.isProcessing
  /\ modal' = ClosedModal
  /\ last' = Op("CloseModal", modal.table_id, 0, Null, 0)
  /\ UNCHANGED <<authVars, billVars, cartVars, calcVars, tables, grid, blocks, norm, fetches, tableStoreLoading, payCall, backend>>

\* handlePayment up to the first await of the dashboard's
\* handlePaymentComplete: the button is enabled with a method and an amount
\* that covers the bill; a table without row or without order id throws,
\* which the dashboard toasts and the modal shows
ConfirmPayment ==
  /\ FormShown
  /\ ConfirmEnabled
  /\ Cardinality(payCall) < MaxInflightPay
  /\ LET entries == tableEntries(modal.table_id)
         order == IF entries = << >> THEN 0 ELSE entries[1].current_order_id
     IN IF modal.selectedMethod = Null
           \/ ~ isValidAmount(modal.amountPaid, modal.amount)
        THEN /\ modal' = [modal EXCEPT
                            !.error = "Please select payment method and enter valid amount"]
             /\ payCall' = payCall
             /\ last' = Op("PaymentInvalid", modal.table_id, 0, Null, 0)
        ELSE IF order = 0
        THEN /\ modal' = [modal EXCEPT !.error = "Payment failed. Please try again."]
             /\ payCall' = payCall
             /\ last' = Op("PaymentFailed", modal.table_id, 0,
                           backend.status[modal.table_id], 0)
        ELSE /\ modal' = [modal EXCEPT !.isProcessing = TRUE, !.error = ""]
             /\ payCall' = payCall \cup
                  {[table_id |-> modal.table_id,
                    order_id |-> order,
                    payment_method |-> modal.selectedMethod,
                    amount_paid |-> modal.amountPaid,
                    amount_due |-> modal.amount,
                    phase |-> "processPayment",
                    mounted |-> TRUE,
                    paidBefore |-> backend.paid[order],
                    statusBefore |-> backend.status[modal.table_id]]}
             /\ last' = Op("ConfirmPayment", modal.table_id, order, Null, 0)
  /\ UNCHANGED <<authVars, billVars, cartVars, calcVars, tables, grid, blocks, norm, fetches, tableStoreLoading, backend>>

\* the catch of handlePaymentComplete toasts and rethrows; the modal that
\* sent the request shows the error and leaves its processing view
PaymentFailed(c) ==
  /\ payCall' = payCall \ {c}
  /\ modal' = IF c.mounted
              THEN [modal EXCEPT !.isProcessing = FALSE,
                                 !.error = "Payment failed. Please try again."]
              ELSE modal
  /\ last' = Op("PaymentFailed", c.table_id, c.order_id, c.statusBefore, c.paidBefore)
  /\ UNCHANGED <<authVars, billVars, cartVars, calcVars, tables, grid, blocks, norm, fetches, tableStoreLoading>>

\* POST /payments resolves: the backend holds a payment for the order, and
\* updateTableStatus(tableId, 'empty') is sent
ProcessPaymentResolved(c) ==
  /\ c \in payCall
  /\ c.phase = "processPayment"
  /\ backend.paid[c.order_id] < MaxPayments
  /\ backend' = [backend EXCEPT !.paid[c.order_id] = @ + 1]
  /\ payCall' = (payCall \ {c}) \cup {[c EXCEPT !.phase = "updateTableStatus"]}
  /\ statusLog' = statusLog \cup
        {[table_id |-> c.table_id, status |-> "empty", origin |-> "payment"]}
  /\ last' = Op("ProcessPaymentResolved", c.table_id, c.order_id, Null, 0)
  /\ UNCHANGED <<selectedTable, existingOrders, isGeneratingBill, billCalls, bill>>
  /\ UNCHANGED <<authVars, cartVars, calcVars, tables, grid, blocks, norm, fetches, tableStoreLoading, modal>>

\* POST /payments rejects
ProcessPaymentRejected(c) ==
  /\ c \in payCall
  /\ c.phase = "processPayment"
  /\ PaymentFailed(c)
  /\ UNCHANGED backend

\* the status update to 'empty' resolves
UpdateStatusResolved(c) ==
  /\ c \in payCall
  /\ c.phase = "updateTableStatus"
  /\ backend' = [backend EXCEPT !.status[c.table_id] = "empty"]
  /\ payCall' = (payCall \ {c}) \cup {[c EXCEPT !.phase = "fetchTables"]}
  /\ tableStoreLoading' = TRUE
  /\ last' = Op("UpdateStatusResolved", c.table_id, c.order_id, Null, 0)
  /\ UNCHANGED <<authVars, billVars, cartVars, calcVars, tables, grid, blocks, norm, fetches, modal>>

\* the status update rejects
UpdateStatusRejected(c) ==
  /\ c \in payCall
  /\ c.phase = "updateTableStatus"
  /\ PaymentFailed(c)
  /\ UNCHANGED backend

\* the awaited fetchTables of handlePaymentComplete is in flight
PaymentFetching == {c \in payCall : c.phase = "fetchTables"}

\* the awaited fetchTables ends, with the listing or with its own caught
\* error: success is toasted and the grid closes its modal
PaymentCompleted(c, fetched) ==
  /\ c \in payCall
  /\ c.phase = "fetchTables"
  /\ tables' = IF fetched THEN BackendListing(backend) ELSE tables
  /\ grid' = aggregate(tables')
  /\ blocks' = groupByBlock(grid')
  /\ tableStoreLoading' = FALSE
  /\ UNCHANGED <<norm, fetches>>
  /\ modal' = IF route = "captain" THEN ClosedModal ELSE modal
  /\ payCall' = Unmount(payCall \ {c})
  /\ last' = Op("PaymentCompleted", c.table_id, c.order_id, Null, 0)
  /\ UNCHANGED <<authVars, billVars, cartVars, calcVars, backend>>

(***************************************************************************)
(* Re-fetches of the table listing.                                        *)
(***************************************************************************)
\* the statuses a table can be given by another terminal
TableStatuses == {"empty", "running", "billed"}

NoResponse == [shape |-> "none", rows |-> << >>]

\* state.tables.map exists only on an array: on a stored object of any other
\* shape the updater of updateTable throws a TypeError
updateTableRaises(t) == t.shape # "array"

\* useTableStore.updateTable on the stored array of rows
updateTable(t, id, st) ==
  [t EXCEPT !.rows = [i \in 1..Len(t.rows) |->
                        IF t.rows[i].table_id = id
                        THEN [t.rows[i] EXCEPT !.status = st]
                        ELSE t.rows[i]]]

\* fetchTables up to its await: setLoading(true), whose spinner unmounts the
\* PaymentModal, and GET /tables is sent; seq numbers the calls in issue order
fetchTablesSent ==
  /\ fetches.issued < MaxFetches
  /\ Cardinality(fetches.inflight) < MaxInflightFetch
  /\ fetches' = [fetches EXCEPT
                   !.issued = @ + 1,
                   !.inflight = @ \cup {[seq |-> fetches.issued + 1,
                                         phase |-> "sent",
                                         response |-> NoResponse]}]
  /\ tableStoreLoading' = TRUE
  /\ modal' = IF modal.open
              THEN [ClosedModal EXCEPT !.open = TRUE, !.table_id = modal.table_id,
                                       !.amount = modal.amount,
                                       !.amountPaid = modal.amount]
              ELSE modal
  /\ payCall' = Unmount(payCall)

\* an order_updated event or the refresh button: fetchTables
StartFetch ==
  /\ route = "captain"
  /\ fetchTablesSent
  /\ last' = Op("StartFetch", fetches.issued + 1, 0, Null, 0)
  /\ UNCHANGED <<authVars, billVars, cartVars, calcVars, tables, grid, blocks, norm, backend>>

\* a table_status_updated event: updateTable with the status it carries,
\* then fetchTables
TableStatusUpdated(t, st) ==
  /\ route = "captain"
  /\ IF updateTableRaises(tables)
     THEN \* the TypeError leaves the handler before fetchTables is called
          /\ last' = Op("TableStatusRaised", t, 0, st, 0)
          /\ UNCHANGED <<authVars, billVars, cartVars, calcVars, dashVars>>
     ELSE /\ fetchTablesSent
          /\ tables' = updateTable(tables, t, st)
          /\ grid' = aggregate(tables')
          /\ blocks' = groupByBlock(grid')
          /\ last' = Op("TableStatusUpdated", fetches.issued + 1, 0, st, 0)
          /\ UNCHANGED <<authVars, billVars, cartVars, calcVars, norm, backend>>

\* the backend answers a request with its listing of that moment
ServeFetch(f) ==
  /\ f \in fetches.inflight
  /\ f.phase = "sent"
  /\ fetches' = [fetches EXCEPT
                   !.inflight = (@ \ {f}) \cup
                      {[f EXCEPT !.phase = "served",
                                 !.response = BackendListing(backend)]}]
  /\ last' = Op("ServeFetch", f.seq, 0, Null, 0)
  /\ UNCHANGED <<authVars, billVars, cartVars, calcVars, tables, grid, blocks, norm, tableStoreLoading, modal, payCall, backend>>

\* the backend answers with its listing wrapped in one of the payload shapes
ServeFetchShaped(f, sh) ==
  /\ f \in fetches.inflight
  /\ f.phase = "sent"
  /\ fetches' = [fetches EXCEPT
                   !.inflight = (@ \ {f}) \cup
                      {[f EXCEPT !.phase = "served",
                                 !.response = [shape |-> sh,
                                               rows |-> BackendListing(backend).rows]]}]
  /\ last' = Op("ServeFetch", f.seq, 0, sh, 0)
  /\ UNCHANGED <<authVars, billVars, cartVars, calcVars, tables, grid, blocks, norm, tableStoreLoading, modal, payCall, backend>>

ResolveFetch_DropsStale(f) ==
  /\ f \in fetches.inflight
  /\ f.phase = "served"
  /\ tables' = IF f.seq < fetches.newest THEN tables ELSE f.response
  /\ grid' = aggregate(tables')
  /\ blocks' = groupByBlock(grid')
  /\ fetches' = [fetches EXCEPT
                   !.newest = IF f.seq > @ THEN f.seq ELSE @,
                   !.inflight = @ \ {f}]
  /\ tableStoreLoading' = FALSE
  /\ last' = Op("FetchResolved", f.seq, 0, Null, fetches.newest)
  /\ UNCHANGED <<authVars, billVars, cartVars, calcVars, norm, modal, payCall, backend>>

\* a response arrives: setTables(data), whatever was issued or applied since
\* (the modal stays as the spinner of the call left it);
\* newest records the latest-issued call applied so far
ResolveFetch(f) ==
  /\ f \in fetches.inflight
  /\ f.phase = "served"
  /\ tables' = f.response
  /\ grid' = aggregate(tables')
  /\ blocks' = groupByBlock(grid')
  /\ fetches' = [fetches EXCEPT
                   !.newest = IF f.seq > @ THEN f.seq ELSE @,
                   !.inflight = @ \ {f}]
  /\ tableStoreLoading' = FALSE
  /\ last' = Op("FetchResolved", f.seq, 0, Null, fetches.newest)
  /\ UNCHANGED <<authVars, billVars, cartVars, calcVars, norm, modal, payCall, backend>>

\* a request fails: the catch of fetchTables toasts, the store keeps its listing
RejectFetch(f) ==
  /\ f \in fetches.inflight
  /\ fetches' = [fetches EXCEPT !.inflight = @ \ {f}]
  /\ tableStoreLoading' = FALSE
  /\ last' = Op("FetchRejected", f.seq, 0, Null, 0)
  /\ UNCHANGED <<authVars, billVars, cartVars, calcVars, tables, grid, blocks, norm, modal, payCall, backend>>

\* another terminal changes the status of a table
BackendChange(t, st) ==
  /\ backend.status[t] # st
  /\ backend' = [backend EXCEPT !.status[t] = st]
  /\ last' = Op("BackendChange", t, 0, st, 0)
  /\ UNCHANGED <<authVars, billVars, cartVars, calcVars, tables, grid, blocks, norm, fetches, tableStoreLoading, modal, payCall>>

(***************************************************************************)
(* Bill generation (handleGenerateBill).                                   *)
(***************************************************************************)
\* the click: setIsGeneratingBill(true), getAllTables is awaited
GenerateBill ==
  /\ CanGenerateBill
  /\ Cardinality(billCalls) < MaxInflightBill
  /\ isGeneratingBill' = TRUE
  /\ billCalls' = billCalls \cup
       {[table_id |-> pageTableId, phase |-> "getAllTables", mounted |-> TRUE,
         listing |-> << >>, tableOrders |-> << >>]}
  /\ last' = Op("GenerateBill", pageTableId, 0, Null, 0)
  /\ UNCHANGED <<selectedTable, existingOrders, bill, statusLog>>
  /\ UNCHANGED <<cartVars, calcVars, dashVars, authVars>>

\* the end of a call: the finally resets the flag of the page that made it
BillCallEnds(c) ==
  /\ billCalls' = billCalls \ {c}
  /\ isGeneratingBill' = IF c.mounted THEN FALSE ELSE isGeneratingBill

\* the listing arrives: without an order of the table the handler reports
\* 'No orders found for this table'; else the totals are taken and
\* getTableOrders is awaited
BillTablesLoaded(c) ==
  /\ c \in billCalls
  /\ c.phase = "getAllTables"
  /\ LET rows == allTablesOfBill(BackendListing(backend))
         orders == tableOrdersOf(rows, c.table_id)
     IN IF orders = << >>
        THEN /\ BillCallEnds(c)
             /\ last' = Op("BillNoOrders", c.table_id, 0, Null, 0)
        ELSE /\ billCalls' = (billCalls \ {c}) \cup
                   {[c EXCEPT !.phase = "getTableOrders", !.listing = rows,
                              !.tableOrders = orders]}
             /\ last' = Op("BillTablesLoaded", c.table_id, 0, Null, 0)
             /\ UNCHANGED isGeneratingBill
  /\ UNCHANGED <<selectedTable, existingOrders, bill, statusLog>>
  /\ UNCHANGED <<cartVars, calcVars, dashVars, authVars>>

\* getTableOrders ends, with the items or with the caught error and the
\* fallback items: the bill is printed and updateTableStatus(tableId,
\* 'billed') is sent
BillOrdersLoaded(c) ==
  /\ c \in billCalls
  /\ c.phase = "getTableOrders"
  /\ LET t == billTotals(c.tableOrders)
     IN bill' = [table_id |-> c.table_id, listing |-> c.listing,
                 subtotal |-> t.subtotal, tax |-> t.tax, total |-> t.total]
  /\ statusLog' = statusLog \cup
        {[table_id |-> c.table_id, status |-> "billed", origin |-> "bill"]}
  /\ billCalls' = (billCalls \ {c}) \cup {[c EXCEPT !.phase = "updateTableStatus"]}
  /\ last' = Op("BillOrdersLoaded", c.table_id, 0, Null, 0)
  /\ UNCHANGED <<selectedTable, existingOrders, isGeneratingBill>>
  /\ UNCHANGED <<cartVars, calcVars, dashVars, authVars>>

\* the status update resolves: success is toasted and the page is left for
\* the dashboard after its delay
BillStatusResolved(c) ==
  /\ c \in billCalls
  /\ c.phase = "updateTableStatus"
  /\ backend' = [backend EXCEPT !.status[c.table_id] = "billed"]
  /\ billCalls' = Unmount(billCalls \ {c})
  /\ isGeneratingBill' = FALSE
  /\ existingOrders' = << >>
  /\ route' = "captain"
  /\ pageTableId' = 0
  /\ isLoading' = FALSE
  /\ isGeneratingKOT' = FALSE
  /\ pendingAdds' = Unmount(pendingAdds)
  /\ kotRequests' = Unmount(kotRequests)
  /\ last' = Op("BillStatusResolved", c.table_id, 0, Null, 0)
  /\ UNCHANGED <<selectedTable, bill, statusLog>>
  /\ UNCHANGED <<items, tableId>>
  /\ UNCHANGED <<calcVars, tables, grid, modal, payCall, blocks, norm, fetches, tableStoreLoading, authVars>>

\* a request of the call rejects: 'Failed to generate bill'
BillFailed(c) ==
  /\ c \in billCalls
  /\ BillCallEnds(c)
  /\ last' = Op("BillFailed", c.table_id, 0, c.phase, 0)
  /\ UNCHANGED <<selectedTable, existingOrders, bill, statusLog>>
  /\ UNCHANGED <<cartVars, calcVars, dashVars, authVars>>

(***************************************************************************)
(* Login, API requests and their 401 responses, logout, reload.            *)
(***************************************************************************)
\* a fresh browser on the login page
InitAuth ==
  /\ CartIdle
  /\ BillIdle
  /\ CalcIdle
  /\ DashIdle
  /\ storage = [access_token |-> 0, refresh_token |-> 0, auth |-> LoggedOut]
  /\ authStore = LoggedOut
  /\ pathname = "/"
  /\ http = {}
  /\ loginForm = FormIdle
  /\ audit = AuditIdle
  /\ last = Op("init", 0, 0, Null, 0)

\* the number of a free request slot
FreeSlot == CHOOSE i \in 1 .. MaxInflightHttp : \A r \in http : r.slot # i

\* 1 when the access token goes from absent to present
Stored(st, st2) == IF st.access_token = 0 /\ st2.access_token # 0 THEN 1 ELSE 0

SetMode(m) ==
  /\ pathname = "/"
  /\ ~ loginForm.isLoading
  /\ loginForm.mode # m
  /\ loginForm' = [loginForm EXCEPT !.mode = m]
  /\ last' = Op("SetMode", 0, 0, m, 0)
  /\ UNCHANGED <<cartVars, calcVars, dashVars, billVars, storage, authStore, pathname, http, audit>>

\* handleSubmit up to its await: POST /auth/login is sent
LoginSubmit ==
  /\ pathname = "/"
  /\ ~ loginForm.isLoading
  /\ audit.logins < MaxLogins
  /\ Cardinality(http) < MaxInflightHttp
  /\ loginForm' = [loginForm EXCEPT !.isLoading = TRUE]
  /\ audit' = [audit EXCEPT !.logins = @ + 1]
  /\ http' = http \cup {[slot |-> FreeSlot, kind |-> "login",
                         mode |-> loginForm.mode, token |-> audit.logins + 2]}
  /\ last' = Op("LoginSubmit", 0, 0, loginForm.mode, 0)
  /\ UNCHANGED <<cartVars, calcVars, dashVars, billVars, storage, authStore, pathname>>

\* the login response arrives: authApi.login stores the tokens it finds, then
\* handleSubmit accepts (setAuth, and the redirect of the role) or rejects
LoginResponded(r, b) ==
  /\ r \in http
  /\ r.kind = "login"
  /\ LET st1 == IF tokenFoundByLogin(b) THEN setTokens(storage, r.token) ELSE storage
         accepted == /\ b.success /\ b.data
                     /\ tokenFoundByPage(b)
                     /\ ~ (r.mode = "admin" /\ b.role # "admin")
         a == [user |-> b.role, isAuthenticated |-> TRUE]
     IN IF accepted
        THEN /\ storage' = persist(setTokens(st1, r.token), a)
             /\ authStore' = a
             /\ pathname' = settle(pathname, a)
             /\ loginForm' = FormIdle
             /\ last' = Op("LoginAccepted", r.slot, 0, b.role, 0)
        ELSE /\ storage' = st1
             /\ loginForm' = [loginForm EXCEPT !.isLoading = FALSE]
             /\ last' = Op("LoginRejected", r.slot, 0, b.role, 0)
             /\ UNCHANGED <<authStore, pathname>>
  /\ audit' = [audit EXCEPT !.stored = @ + Stored(storage, storage')]
  /\ http' = http \ {r}
  /\ UNCHANGED <<cartVars, calcVars, dashVars, billVars>>

\* the dashboard sends a request (fetchTables and the like); the request
\* interceptor attaches the stored token
ApiRequest ==
  /\ pathname = "/captain"
  /\ Cardinality(http) < MaxInflightHttp
  /\ http' = http \cup {[slot |-> FreeSlot, kind |-> "api",
                         mode |-> "captain", token |-> storage.access_token]}
  /\ last' = Op("ApiRequest", 0, 0, Null, 0)
  /\ UNCHANGED <<cartVars, calcVars, dashVars, billVars, storage, authStore, pathname, loginForm, audit>>

\* a request sent with a token is answered
ApiOk(r) ==
  /\ r \in http
  /\ r.kind = "api"
  /\ r.token # 0
  /\ http' = http \ {r}
  /\ last' = Op("ApiOk", r.slot, 0, Null, 0)
  /\ UNCHANGED <<cartVars, calcVars, dashVars, billVars, storage, authStore, pathname, loginForm, audit>>

\* a 401 response: the interceptor, then with its redirect the reload of the
\* application at the login route, else the catch of the caller
Unauthorized(r) ==
  /\ r \in http
  /\ LET res == on401(storage, pathname)
     IN /\ storage' = res.storage
        /\ IF res.redirected
           THEN /\ authStore' = storage'.auth
                /\ pathname' = settle("/", authStore')
                /\ http' = {}
                /\ loginForm' = FormIdle
                /\ audit' = [audit EXCEPT !.redirects = @ + 1]
           ELSE /\ http' = http \ {r}
                /\ loginForm' = IF r.kind = "login"
                                THEN [loginForm EXCEPT !.isLoading = FALSE]
                                ELSE loginForm
                /\ UNCHANGED <<authStore, pathname, audit>>
  /\ last' = Op("Unauthorized", r.slot, storage.access_token, pathname, audit.redirects)
  /\ UNCHANGED <<cartVars, calcVars, dashVars, billVars>>

\* handleLogout: the store's logout, then router.push('/')
Logout ==
  /\ pathname = "/captain"
  /\ authStore' = LoggedOut
  /\ storage' = persist(removeTokens(storage), LoggedOut)
  /\ pathname' = "/"
  /\ last' = Op("Logout", 0, 0, Null, 0)
  /\ UNCHANGED <<cartVars, calcVars, dashVars, billVars, http, loginForm, audit>>

\* the browser reloads the page: the store is rehydrated from auth-storage
Reload ==
  /\ authStore' = storage.auth
  /\ pathname' = settle(pathname, authStore')
  /\ http' = {}
  /\ loginForm' = FormIdle
  /\ last' = Op("Reload", 0, 0, Null, 0)
  /\ UNCHANGED <<cartVars, calcVars, dashVars, billVars, storage, audit>>

(***************************************************************************)
(* Specifications.                                                         *)
(***************************************************************************)
\* the cart under every cart action of the order page
NextCart ==
  \/ \E t \in TableIds : EnterOrderPage(t)
  \/ TableDataLoaded
  \/ LeaveOrderPage
  \/ \E id \in MenuIds : AddClick(id)
  \/ \E p \in pendingAdds : AddApply(p)
  \/ \E id \in MenuIds, q \in QtyArgs : UpdateQuantity(id, q)
  \/ \E id \in MenuIds : RemoveItem(id)
  \/ \E id \in MenuIds, lvl \in SpiceChoices : UpdateSpicePreference(id, lvl)
  \/ ClearCart

SpecCart == Init /\ [][NextCart]_vars

\* the cart under add, updateQuantity and remove, with KOT submission
NextKOT ==
  \/ \E t \in TableIds : EnterOrderPage(t)
  \/ TableDataLoaded
  \/ LeaveOrderPage
  \/ \E id \in MenuIds : AddClick(id)
  \/ \E p \in pendingAdds : AddApply(p)
  \/ \E id \in MenuIds, q \in QtyArgs : UpdateQuantity(id, q)
  \/ \E id \in MenuIds : RemoveItem(id)
  \/ GenerateKOT
  \/ \E r \in kotRequests : KOTSuccess(r)
  \/ \E r \in kotRequests : KOTFail(r)
  \/ \E r \in kotRequests : KOTRefreshed(r)
  \/ \E r \in kotRequests : KOTRefreshFailed(r)

SpecKOT == Init /\ [][NextKOT]_vars

\* the calculation utilities on every input
NextCalc == Calculate

SpecCalc == InitCalc /\ [][NextCalc]_vars

\* the grid on every listing
NextAgg == RenderTableGrid

SpecAgg == InitAgg /\ [][NextAgg]_vars

\* the grid on listings of tables with blocks and display numbers
SpecGroup == InitGroup /\ [][NextAgg]_vars

\* the call sites on every listing
NextShapes == Normalize

SpecShapes == InitAgg /\ [][NextShapes]_vars

\* the dashboard with its payment modal
NextPay ==
  \/ RefreshTables
  \/ \E t \in TableIds : TableClick(t)
  \/ LeaveOrderPage
  \/ \E m \in PaymentMethods : SelectMethod(m)
  \/ \E a \in AmountChoices(modal.amount) : EnterAmount(a)
  \/ CloseModal
  \/ ConfirmPayment
  \/ \E c \in payCall : ProcessPaymentResolved(c)
  \/ \E c \in payCall : ProcessPaymentRejected(c)
  \/ \E c \in payCall : UpdateStatusResolved(c)
  \/ \E c \in payCall : UpdateStatusRejected(c)
  \/ \E c \in payCall, fetched \in BOOLEAN : PaymentCompleted(c, fetched)

SpecPay == InitPay /\ [][NextPay]_vars

\* the dashboard's re-fetches against a backend that changes
NextFetch ==
  \/ StartFetch
  \/ \E t \in TableIds, st \in TableStatuses : TableStatusUpdated(t, st)
  \/ \E f \in fetches.inflight : ServeFetch(f)
  \/ \E f \in fetches.inflight : ResolveFetch(f)
  \/ \E f \in fetches.inflight : RejectFetch(f)
  \/ \E t \in TableIds, st \in TableStatuses : BackendChange(t, st)

SpecFetch == InitPay /\ [][NextFetch]_vars

\* payment of a table of the rendered grid
NextOrderId ==
  \/ RenderTableGrid
  \/ \E t \in TableIds : TableClick(t)
  \/ \E m \in {"cash", "upi"} : SelectMethod(m)
  \/ CloseModal
  \/ ConfirmPayment

SpecOrderId == InitOrderId /\ [][NextOrderId]_vars

\* the workflow of a table: order page, bill, payment; the order page is
\* left when its bill is generated
NextFlow ==
  \/ RefreshTables
  \/ \E t \in TableIds : TableClick(t)
  \/ TableDataLoaded
  \/ GenerateBill
  \/ \E c \in billCalls : BillTablesLoaded(c)
  \/ \E c \in billCalls : BillOrdersLoaded(c)
  \/ \E c \in billCalls : BillStatusResolved(c)
  \/ \E c \in billCalls : BillFailed(c)
  \/ SelectMethod("cash")
  \/ CloseModal
  \/ ConfirmPayment
  \/ \E c \in payCall : ProcessPaymentResolved(c)
  \/ \E c \in payCall : ProcessPaymentRejected(c)
  \/ \E c \in payCall : UpdateStatusResolved(c)
  \/ \E c \in payCall : UpdateStatusRejected(c)
  \/ \E c \in payCall, fetched \in BOOLEAN : PaymentCompleted(c, fetched)

\* the dashboard with its tables fetched, every table running with an order
InitFlow ==
  /\ InitPay
  /\ \A t \in TableIds : backend.status[t] = "running"
  /\ backend.order2 = 9

SpecFlow == InitFlow /\ [][NextFlow]_vars

\* the submit buttons of the order page and of the payment modal, on pages
\* that can be left and entered again
NextSubmit ==
  \/ RefreshTables
  \/ \E t \in TableIds : TableClick(t)
  \/ TableDataLoaded
  \/ LeaveOrderPage
  \/ GenerateBill
  \/ \E c \in billCalls : BillTablesLoaded(c)
  \/ \E c \in billCalls : BillOrdersLoaded(c)
  \/ \E c \in billCalls : BillStatusResolved(c)
  \/ \E c \in billCalls : BillFailed(c)
  \/ SelectMethod("cash")
  \/ CloseModal
  \/ ConfirmPayment
  \/ \E c \in payCall : ProcessPaymentRejected(c)

SpecSubmit == InitFlow /\ [][NextSubmit]_vars

\* the session of a browser: login, requests, 401 responses, logout, reload
NextAuth ==
  \/ \E m \in LoginModes : SetMode(m)
  \/ LoginSubmit
  \/ \E r \in http, b \in LoginBodies : LoginResponded(r, b)
  \/ ApiRequest
  \/ \E r \in http : ApiOk(r)
  \/ \E r \in http : Unauthorized(r)
  \/ Logout
  \/ Reload

SpecAuth == InitAuth /\ [][NextAuth]_vars

\* push events on a dashboard whose fetches return any of the payload shapes
NextPush ==
  \/ StartFetch
  \/ \E t \in TableIds, st \in TableStatuses : TableStatusUpdated(t, st)
  \/ \E f \in fetches.inflight, sh \in PayloadShapes : ServeFetchShaped(f, sh)
  \/ \E f \in fetches.inflight : ResolveFetch(f)

SpecPush == InitPay /\ [][NextPush]_vars

(***************************************************************************)
(* Claims about the cart.                                                  *)
(***************************************************************************)
UniqueIds(its) ==
  \A i, j \in 1 .. Len(its) : its[i].item_id = its[j].item_id => i = j

C2_QuantityAtLeastOne ==
  /\ \A i \in 1 .. Len(items) : items[i].quantity \in Nat /\ items[i].quantity >= 1
  /\ \A id \in MenuIds :
       /\ ~ HasItem(items, id) =>
            QuantityOf(addItem(items, CartItemOf(MenuItem(id))), id) = 1
       /\ \A q \in QtyArgs :
            q <= 0 => ~ HasItem(updateQuantity(items, id, q), id)

\* updateQuantity with a quantity <= 0 ran on a line that existed
C2_Witness ==
  /\ last.op = "updateQuantity"
  /\ last.q <= 0
  /\ last.pre >= 1
  /\ ~ HasItem(items, last.id)
  /\ items # << >>

\* the items with the spice preference of the line of itemId replaced
SpiceReplaced(its, itemId, lvl) ==
  [i \in 1 .. Len(its) |->
     IF its[i].item_id = itemId
     THEN [its[i] EXCEPT !.spice_preference = lvl]
     ELSE its[i]]

\* C3: updateSpicePreference(itemId, level) on the order page replaces only
\* the spice preference of the matching line: quantities, instructions, the
\* other lines, the order of the lines and the table identifier are kept,
\* and nothing changes when itemId is not in the cart.
C3_SpiceInPlace ==
  [][last'.op = "updateSpicePreference" =>
       /\ items' = SpiceReplaced(items, last'.id, last'.lvl)
       /\ tableId' = tableId]_vars

\* the items without their k-th line
WithoutLine(its, k) == SubSeq(its, 1, k - 1) \o SubSeq(its, k + 1, Len(its))

\* C19: updateQuantity(itemId, 0) on a line of the cart removes that line and
\* keeps the others in their order; updateQuantity and removeItem with an
\* itemId that has no line leave the lines and the table identifier as they are.
C19_ZeroRemovesAbsentKeeps ==
  [][/\ (last'.op = "updateQuantity" /\ last'.q = 0 /\ HasItem(items, last'.id)) =>
          /\ \E k \in 1 .. Len(items) :
                items[k].item_id = last'.id /\ items' = WithoutLine(items, k)
          /\ tableId' = tableId
     /\ (last'.op \in {"updateQuantity", "removeItem"} /\ ~ HasItem(items, last'.id)) =>
          /\ items' = items
          /\ tableId' = tableId]_vars

\* updateQuantity(itemId, 0) took the first of two lines, the second is left
C19_Witness ==
  /\ last.op = "updateQuantity"
  /\ last.q = 0
  /\ last.pre >= 1
  /\ last.id = 1
  /\ Len(items) = 1
  /\ items[1].item_id = 2

(***************************************************************************)
(* KOT submission.                                                         *)
(***************************************************************************)
\* the createOrder request a step completes or fails
Settled(before, after) == {r \in before \ after : r.phase = "createOrder"}

\* line l of the cart is in the payload with the same quantity
InPayload(l, payload) ==
  \E j \in 1 .. Len(payload.order_items) :
     /\ payload.order_items[j].menu_item_id = l.item_id
     /\ payload.order_items[j].quantity = l.quantity

\* C4: while a createOrder request is in flight the cart changes only by the
\* clear of its success, and every line that clear discards is in the
\* submitted payload with the same quantity.
C4_NoOverlap ==
  [][(\E r \in kotRequests : r.phase = "createOrder") =>
       /\ items' # items => last'.op = "KOTSuccess"
       /\ last'.op = "KOTSuccess" =>
            \A r \in Settled(kotRequests, kotRequests') :
               \A i \in 1 .. Len(items) : InPayload(items[i], r.payload)]_vars

\* C5: when the order page is entered for a table the cart is empty.
C5_EmptyOnEnter == last.op = "EnterOrderPage" => items = << >>

RECURSIVE SumOverMenu(_, _)
SumOverMenu(its, ids) ==
  IF ids = {} THEN 0
  ELSE LET id == CHOOSE x \in ids : TRUE
       IN (IF HasItem(its, id) THEN MenuItem(id).price * QuantityOf(its, id) ELSE 0)
            + SumOverMenu(its, ids \ {id})

\* the total_price fields of a payload summed
RECURSIVE SumOfLines(_)
SumOfLines(lines) ==
  IF lines = << >> THEN 0 ELSE Head(lines).total_price + SumOfLines(Tail(lines))

\* C8: the store's subtotal, the page's subtotal and the subtotal of a
\* payload equal the sum of price * quantity over the lines of the cart.
C8_SubtotalIsSum ==
  /\ getSubtotal(items) = SumOverMenu(items, MenuIds)
  /\ subtotal(items) = SumOverMenu(items, MenuIds)
  /\ \A r \in kotRequests :
       /\ r.payload.subtotal_amount = SumOfLines(r.payload.order_items)
       /\ \A j \in 1 .. Len(r.payload.order_items) :
            r.payload.order_items[j].total_price =
              r.payload.order_items[j].unit_price * r.payload.order_items[j].quantity

\* two lines of different quantities after an updateQuantity
C8_Witness ==
  /\ last.op = "updateQuantity"
  /\ Len(items) = 2
  /\ items[1].quantity # items[2].quantity
  /\ getSubtotal(items) = items[1].price * items[1].quantity
                            + items[2].price * items[2].quantity

\* the sum of unit_price * quantity, line by line
LineSum(lines) ==
  LET RECURSIVE upTo(_)
      upTo(n) == IF n = 0 THEN 0
                 ELSE upTo(n - 1) + lines[n].unit_price * lines[n].quantity
  IN upTo(Len(lines))

\* the discount given, 0 when absent
DiscountOf(d) == IF d = << >> THEN 0 ELSE d[1]

\* the cart of the scenario: A (price 100, qty 2) and B (price 250, qty 1)
ScenarioLines ==
  << [unit_price |-> 10000, quantity |-> 2], [unit_price |-> 25000, quantity |-> 1] >>

\* C9: tax is 5% of the subtotal and total is subtotal + tax - discount, the
\* discount defaulting to 0; a subtotal of 1000 gives tax 50 and total 1050,
\* and the scenario cart gives 450, 22.50 and 472.50 (amounts in paise); the
\* getters of the store give the same subtotal, tax and undiscounted total.
C9_TaxAndTotal ==
  calc.done =>
    /\ calc.subtotal = LineSum(calc.lines)
    /\ calc.tax * 100 = calc.subtotal * 5
    /\ calc.total = calc.subtotal + calc.tax - DiscountOf(calc.discount)
    /\ calc.storeSubtotal = calc.subtotal
    /\ calc.storeTax * 100 = calc.storeSubtotal * 5
    /\ calc.storeTotal = calc.storeSubtotal + calc.storeTax
    /\ (calc.subtotal = 100000 /\ calc.discount = << >>) =>
         (calc.tax = 5000 /\ calc.total = 105000)
    /\ (calc.lines = ScenarioLines /\ DiscountOf(calc.discount) = 0) =>
         (calc.subtotal = 45000 /\ calc.tax = 2250 /\ calc.total = 47250)

\* the scenario cart calculated without a discount argument
C9_Witness ==
  /\ calc.done
  /\ calc.lines = ScenarioLines
  /\ calc.discount = << >>
  /\ calc.total = 47250
  /\ calc.storeTotal = 47250

(***************************************************************************)
(* Aggregation.                                                            *)
(***************************************************************************)
\* the table ids of the rows in the order of their first occurrence
FirstSeenIds(rows) ==
  LET first == SelectSeq([i \in 1 .. Len(rows) |-> i],
                         LAMBDA i : \A j \in 1 .. (i - 1) :
                                      rows[j].table_id # rows[i].table_id)
  IN [k \in 1 .. Len(first) |-> rows[first[k]].table_id]

\* the table ids of the entries of the grid, in order
GridIds(g) == [k \in 1 .. Len(g) |-> g[k].table_id]

\* C10: the rendered grid has one entry per distinct table id of the rows, in
\* the order in which the ids first occur; no rows give no entries, and an id
\* that is in no row has no entry.
C10_OnePerTableFirstSeen ==
  last.op = "RenderTableGrid" =>
    LET rows == tableArrayOf(tables)
        ids == {rows[i].table_id : i \in 1 .. Len(rows)}
    IN /\ GridIds(grid) = FirstSeenIds(rows)
       /\ Len(grid) = Cardinality(ids)
       /\ \A i, j \in 1 .. Len(grid) : grid[i].table_id = grid[j].table_id => i = j
       /\ \A i \in 1 .. Len(grid) : grid[i].table_id \in ids
       /\ rows = << >> => grid = << >>

\* three rows of two tables, the first table seen again after the second
C10_Witness ==
  /\ last.op = "RenderTableGrid"
  /\ tables.shape = "array"
  /\ Len(tables.rows) = 3
  /\ tables.rows[1].table_id = 2
  /\ tables.rows[2].table_id = 1
  /\ tables.rows[3].table_id = 2
  /\ GridIds(grid) = <<2, 1>>

\* the rows of table id, in input order
RowsOf(rows, id) == SelectSeq(rows, LAMBDA r : r.table_id = id)

\* the amounts of the rows added up, a null amount counting 0
RECURSIVE SumOfAmounts(_)
SumOfAmounts(rows) ==
  IF rows = << >> THEN 0
  ELSE (IF Head(rows).total_amount.k = "num" THEN Head(rows).total_amount.v ELSE 0)
         + SumOfAmounts(Tail(rows))

\* every amount is null or a number of whole paise
WholePaise(rows) ==
  \A i \in 1 .. Len(rows) :
     /\ rows[i].total_amount.k \in {"num", "null"}
     /\ rows[i].total_amount.v % 10 = 0

Permuted(rows, p) == [i \in 1 .. Len(rows) |-> rows[p[i]]]

Perms(n) == {p \in [1 .. n -> 1 .. n] : \A i, j \in 1 .. n : p[i] = p[j] => i = j}

\* the total of table id in an aggregation
TotalOf(g, id) == parseFloatOr0(GridTable(g, id)[1].total_amount)

\* C12: the total of every table is the same for every order of the rows.
C12_TotalOrderIndependent ==
  last.op = "RenderTableGrid" =>
    LET rows == tableArrayOf(tables)
    IN \A p \in Perms(Len(rows)) :
          \A i \in 1 .. Len(grid) :
             TotalOf(aggregateInto(<< >>, Permuted(rows, p)), grid[i].table_id)
               = TotalOf(grid, grid[i].table_id)

\* C13: the status of an aggregated table is 'running' when one of its rows
\* is running, wherever that row stands, and the status of its first row
\* otherwise; two rows of one table, 250.00 and 180.50, one of them running,
\* give one entry of total 430.50 and status running.
C13_RunningWins ==
  last.op = "RenderTableGrid" =>
    LET rows == tableArrayOf(tables)
    IN /\ \A i \in 1 .. Len(grid) :
             LET mine == RowsOf(rows, grid[i].table_id)
             IN grid[i].status =
                  IF \E j \in 1 .. Len(mine) : mine[j].status = "running"
                  THEN "running"
                  ELSE mine[1].status
       /\ ( /\ Len(rows) = 2
            /\ rows[1].table_id = rows[2].table_id
            /\ {rows[1].total_amount, rows[2].total_amount}
                 = {Num(250000), Num(180500)}
            /\ \E j \in 1 .. 2 : rows[j].status = "running" /\ rows[3 - j].status # "running" )
          => ( /\ Len(grid) = 1
               /\ grid[1].total_amount = Num(430500)
               /\ grid[1].status = "running" )

\* the running row comes second: 180.50 billed, then 250.00 running
C13_Witness ==
  /\ last.op = "RenderTableGrid"
  /\ Len(tableArrayOf(tables)) = 2
  /\ tables.rows[1].table_id = tables.rows[2].table_id
  /\ tables.rows[1].status = "billed"
  /\ tables.rows[1].total_amount = Num(180500)
  /\ tables.rows[2].status = "running"
  /\ tables.rows[2].total_amount = Num(250000)
  /\ Len(grid) = 1
  /\ grid[1].status = "running"
  /\ grid[1].total_amount = Num(430500)

\* the order ids of the rows that have one, in input order
OrderIdsOf(rows) ==
  LET withOrder == SelectSeq(rows, LAMBDA r : r.current_order_id # 0)
  IN [k \in 1 .. Len(withOrder) |-> withOrder[k].current_order_id]

\* C14: the order id of an aggregated table is the first order id that is not
\* null among its rows in input order, and null only when all of them are.
C14_FirstOrderIdKept ==
  last.op = "RenderTableGrid" =>
    LET rows == tableArrayOf(tables)
    IN \A i \in 1 .. Len(grid) :
          LET ids == OrderIdsOf(RowsOf(rows, grid[i].table_id))
          IN grid[i].current_order_id = IF ids = << >> THEN 0 ELSE ids[1]

\* a row without order id, then order 8, then order 7: 8 is kept
C14_Witness ==
  /\ last.op = "RenderTableGrid"
  /\ Len(tableArrayOf(tables)) = 3
  /\ \A i \in 1 .. 3 : tables.rows[i].table_id = 2
  /\ tables.rows[1].current_order_id = 0
  /\ tables.rows[2].current_order_id = 8
  /\ tables.rows[3].current_order_id = 7
  /\ Len(grid) = 1
  /\ grid[1].current_order_id = 8

\* C15: the total of every aggregated table, read as the grid and the payment
\* modal read it, is a number.
C15_TotalIsNumber ==
  last.op = "RenderTableGrid" =>
    \A i \in 1 .. Len(grid) : parseFloatOr0(grid[i].total_amount).k = "num"

(***************************************************************************)
(* Grouping and payload shapes.                                            *)
(***************************************************************************)
\* the number a display number writes
RECURSIVE NumberValue(_)
NumberValue(d) ==
  IF d = << >> THEN 0
  ELSE 10 * NumberValue(SubSeq(d, 1, Len(d) - 1)) + d[Len(d)]

\* C16: within each rendered block the tables stand in the numeric order of
\* their display numbers, the blocks stand in ascending order of their keys,
\* and every aggregated table stands in exactly one block.
C16_NumericOrderInBlocks ==
  last.op = "RenderTableGrid" =>
    /\ \A k \in 1 .. Len(blocks) :
          \A i, j \in 1 .. Len(blocks[k].tables) :
             i < j => NumberValue(blocks[k].tables[i].table_number)
                        <= NumberValue(blocks[k].tables[j].table_number)
    /\ \A k, l \in 1 .. Len(blocks) :
          k < l => CodeUnit(blocks[k].block) < CodeUnit(blocks[l].block)
    /\ \A i \in 1 .. Len(grid) :
          Cardinality({<<k, j>> \in (1 .. Len(blocks)) \X (1 .. Len(grid)) :
                         /\ j <= Len(blocks[k].tables)
                         /\ blocks[k].tables[j].table_id = grid[i].table_id}) = 1

\* C17: for a listing of a recognised shape, the grid, the dashboard's payment
\* handler, the order page's table load and the bill generation all extract
\* the rows of the listing.
C17_SameRowsEverywhere ==
  (norm.done /\ tables.shape \in PayloadShapes) =>
    /\ norm.grid = tables.rows
    /\ norm.payment = tables.rows
    /\ norm.page = tables.rows
    /\ norm.bill = tables.rows

C20_LastResolvedWins ==
  [][last'.op = "FetchResolved" =>
       \E f \in fetches.inflight \ fetches'.inflight :
          /\ f.seq = last'.id
          /\ tables' = f.response]_vars

\* a response resolved after that of a later call and replaced it: the store
\* holds the older listing, which is not the backend's
C20_Witness ==
  /\ last.op = "FetchResolved"
  /\ last.id < last.pre
  /\ fetches.inflight = {}
  /\ tables # BackendListing(backend)

\* C21: whatever recognized shape a fetch has stored, handling a table-status
\* push event (patch of the stored rows, then re-fetch) completes without
\* raising.
C21_PushNeverRaises ==
  last.op = "TableStatusRaised" => tables.shape \notin PayloadShapes

\* C27: every add-click that completes raises the item count of the cart by
\* exactly one over the cart it is applied to, whatever cart action took
\* effect between the click and the application.
C27_AddCountsOne ==
  [][last'.op = "AddApply" => getItemCount(items') = getItemCount(items) + 1]_vars

\* C28: the isLoading flag of the table store is true whenever at least one
\* fetch of the dashboard is in flight, overlapping fetches included.
C28_LoadingWhileFetching ==
  (fetches.inflight # {} \/ PaymentFetching # {}) => tableStoreLoading

\* C29: the order id in the payload of the dashboard's payment handler is
\* the order id of the aggregated table the modal was opened on, and when
\* that id is not null the handler finds an order instead of failing.
C29_PayloadOrderIsAggregated ==
  [][(modal.open /\ last'.op \in {"ConfirmPayment", "PaymentFailed"}) =>
        LET agg == GridTable(grid, modal.table_id)[1].current_order_id
        IN /\ last'.op = "ConfirmPayment" => last'.q = agg
           /\ agg # 0 => last'.op = "ConfirmPayment"]_vars

\* C30: no submit starts while an earlier invocation of the same action is
\* in flight (at most one createOrder, one bill generation and one payment
\* request of a table at a time), and the payment modal cannot be closed
\* while it is processing.
C30_NoDoubleSubmit ==
  /\ \A t \in TableIds :
        /\ Cardinality({r \in kotRequests : r.payload.table_id = t}) <= 1
        /\ Cardinality({c \in billCalls : c.table_id = t}) <= 1
        /\ Cardinality({c \in payCall : c.table_id = t}) <= 1
  /\ modal.isProcessing => ~ ENABLED CloseModal

(***************************************************************************)
(* Claims about the workflow of a table.                                   *)
(***************************************************************************)
\* the rows of table t with an order id
OrderRows(rows, t) ==
  {i \in 1 .. Len(rows) : rows[i].table_id = t /\ rows[i].current_order_id # 0}

\* C23: the client requests 'billed' only from bill generation, for a table
\* of which the listing has a row with an order id; it requests 'empty' only
\* when a payment for an order of that table has just succeeded; it never
\* requests 'running'; the payment modal opens only on a table whose
\* aggregated status is billed.
C23_Workflow ==
  [][/\ \A e \in statusLog' \ statusLog :
          /\ e.status # "running"
          /\ e.status = "billed" =>
                /\ last'.op = "BillOrdersLoaded"
                /\ \E c \in billCalls :
                      /\ c.table_id = e.table_id
                      /\ OrderRows(c.listing, e.table_id) # {}
          /\ e.status = "empty" =>
                /\ last'.op = "ProcessPaymentResolved"
                /\ \E c \in payCall :
                      /\ c.table_id = e.table_id
                      /\ backend'.paid[c.order_id] = backend.paid[c.order_id] + 1
                      /\ \E i \in OrderRows(tablesArrayOf(tables), e.table_id) :
                            tablesArrayOf(tables)[i].current_order_id = c.order_id
     /\ \A t \in TableIds :
          backend'.status[t] # backend.status[t] =>
             \E e \in statusLog : e.table_id = t /\ e.status = backend'.status[t]
     /\ (~ modal.open /\ modal'.open) =>
          GridTable(grid, modal'.table_id)[1].status = "billed"]_vars

\* a table went through the workflow: billed from the order page, paid on the
\* dashboard and emptied
C23_Witness ==
  \E t \in TableIds :
    /\ [table_id |-> t, status |-> "billed", origin |-> "bill"] \in statusLog
    /\ [table_id |-> t, status |-> "empty", origin |-> "payment"] \in statusLog
    /\ backend.status[t] = "empty"
    /\ last.op = "PaymentCompleted"

\* the amount the PaymentModal is given for table t of a listing, in
\* hundredths of the unit of the amounts
ModalAmount(rows, t) ==
  OpenedModal(GridTable(aggregate([shape |-> "array", rows |-> rows]), t)[1]).amount * 100

\* C24: the grand total of the bill generated for a table equals the amount
\* due the payment modal shows for the same rows.
C24_BillTotalIsAmountDue ==
  bill.table_id # 0 => bill.total = Num(ModalAmount(bill.listing, bill.table_id))

(***************************************************************************)
(* Claims about authentication.                                            *)
(***************************************************************************)
\* C22: a 401 received while no access token is stored removes nothing and
\* redirects nowhere; a 401 received while a token is stored removes both
\* tokens and redirects to the login route exactly when the current route is
\* not the login route; so the 401 redirects never outnumber the tokens stored.
C22_NoRedirectLoop ==
  [][/\ last'.op = "Unauthorized" =>
          IF storage.access_token = 0
          THEN /\ storage' = storage
               /\ pathname' = pathname
               /\ audit'.redirects = audit.redirects
          ELSE /\ storage'.access_token = 0
               /\ storage'.refresh_token = 0
               /\ audit'.redirects =
                    audit.redirects + (IF pathname # "/" THEN 1 ELSE 0)
               /\ pathname = "/" => pathname' = "/"
     /\ audit'.redirects <= audit'.stored]_vars

\* after a 401 has redirected, a further 401 arrives on the dashboard with no
\* token stored and redirects nowhere
C22_Witness ==
  /\ last.op = "Unauthorized"
  /\ last.q = 0
  /\ last.lvl = "/captain"
  /\ pathname = "/captain"
  /\ audit.redirects = 1
  /\ last.pre = 1

\* C25: whenever the auth store reports an authenticated user, an access
\* token is present in storage.
C25_AuthImpliesToken ==
  (authStore.isAuthenticated /\ authStore.user # NoUser) => storage.access_token # 0

\* C26: a login the page rejects leaves no access or refresh token in storage.
C26_RejectedLoginStoresNothing ==
  last.op = "LoginRejected" =>
     storage.access_token = 0 /\ storage.refresh_token = 0

\* C7: when a payment attempt is reported as failed, the backend holds no
\* payment of the order that it did not hold when the attempt started, and
\* the status of the table is what it was then.
C7_FailureWithoutMutation ==
  last.op = "PaymentFailed" =>
    /\ last.q # 0 => backend.paid[last.q] = last.pre
    /\ backend.status[last.id] = last.lvl

====
